---- MODULE Spec2Model ----
(***************************************************************************)
(* make-fetch-happen: the cache-mode state machine of cachingFetch, the    *)
(* revalidation of condFetch, the retry loop of remoteFetch and the        *)
(* cacache-backed Cache (match / put / delete).                            *)
(*                                                                         *)
(* Control flow follows the http-cache-semantics based revision of the     *)
(* main file (src/unnamed/part_006) and the second revision of             *)
(* src/cache.js (lines 166-397).  The freshness computation, which that    *)
(* revision delegates to a library, follows the in-repository              *)
(* implementation of src/index.js (isStale, freshnessLifetime,             *)
(* heuristicFreshness) and so do the conditional headers of condFetch.     *)
(***************************************************************************)
EXTENDS Integers, Sequences, FiniteSets, TLC

VARIABLES
  store,    \* cacache index: cache key -> entry (metadata + content) or NoEntry
  fx,       \* per fetch call: position in the promise chain and its locals
  clock,    \* wall clock (new Date()), in seconds
  last,     \* summary of the fetch call that completed last (history)
  wrap,     \* the closures fetch.defaults has built and the call made through them
  tee,      \* the body pipeline Cache.put has set up for a response
  pool      \* AGENT_CACHE and the agent getAgent returned last

vars == <<store, fx, clock, last, wrap, tee, pool>>

(***************************************************************************)
(* Bounds of the model.                                                    *)
(***************************************************************************)
MaxClock == 1        \* the clock runs from 0 to MaxClock
MaxRetries == 1      \* opts.retry.retries ranges over 0..MaxRetries
MaxChain == 2        \* fetch.defaults is chained at most MaxChain times
MaxChunks == 2       \* a response body arrives in at most MaxChunks chunks
MaxAgents == 2       \* getAgent creates at most MaxAgents agents

(***************************************************************************)
(* Program constants.                                                      *)
(***************************************************************************)
HeuristicCap == 300  \* heuristicFreshness: Math.min(age * 0.1, 300) / 300

Procs == {"f1"}

Methods == {"GET", "HEAD", "POST", "PUT"}
Modes == {"default", "no-store", "reload", "no-cache", "force-cache",
          "only-if-cached"}

\* A URL is kept parsed, as url.parse sees it.
Url(p, q) == [path |-> p, query |-> q, hash |-> ""]
NoUrl == Url("", "")
URLs == {Url("/test", "a=1"), Url("/test", "a=2")}

\* cacheKey: protocol, host and pathname only; query and hash are dropped.
cacheKey(req) == req.url.path

Keys == {u.path : u \in URLs}

\* A list that also names the DNS failure.
RETRY_ERRORS_WithNotFound ==
  {"ECONNRESET", "ECONNREFUSED", "EADDRINUSE", "ETIMEDOUT", "ENOTFOUND"}

RETRY_ERRORS == {"ECONNRESET", "ECONNREFUSED", "EADDRINUSE", "ETIMEDOUT"}
RETRY_TYPES == {"request-timeout"}

(***************************************************************************)
(* Headers.  Response headers are a record of the fields the program       *)
(* looks at; an absent header is "", -1, 0 or {}.  Request headers are a   *)
(* function from the header name as the caller typed it to its value.      *)
(***************************************************************************)
XLocalNames == {"x-local-cache", "x-local-cache-key", "x-local-cache-hash",
                "x-local-cache-time"}

NoHeaders ==
  [cc |-> {}, maxAge |-> -1, pragma |-> "", expires |-> -1, date |-> -1,
   lastModified |-> -1, etag |-> "", vary |-> "", warning |-> 0,
   attempts |-> 0, xlocal |-> {}]

NoReqHeaders == [h \in {} |-> ""]

\* String.prototype.toLowerCase on the header names the model uses.
toLowerCase(h) ==
  CASE h = "If-None-Match" -> "if-none-match"
    [] h = "IF-MATCH" -> "if-match"
    [] h = "Accept" -> "accept"
    [] OTHER -> h

CondNames == {"if-modified-since", "if-none-match", "if-unmodified-since",
              "if-match", "if-range"}

\* A test of the header names as the caller typed them.
isConditional_AsTyped(headers) ==
  \E h \in DOMAIN headers : h \in CondNames

isConditional(headers) ==
  \E h \in DOMAIN headers : toLowerCase(h) \in CondNames

\* Object-spread of b over a (the forEach copies of condFetch / remoteFetch).
Assign(a, b) ==
  [h \in DOMAIN a \cup DOMAIN b |-> IF h \in DOMAIN b THEN b[h] ELSE a[h]]

(***************************************************************************)
(* Responses and errors share one record shape: status > 0 is a response,  *)
(* status = 0 is "no response" (undefined / null), status = -1 an Error.   *)
(***************************************************************************)
Res(st, hs, bd) ==
  [status |-> st, headers |-> hs, body |-> bd, src |-> "net", tee |-> FALSE,
   code |-> "", type |-> ""]
NoRes == [Res(0, NoHeaders, "") EXCEPT !.src = ""]
Err(c, t) == [Res(-1, NoHeaders, "") EXCEPT !.src = "", !.code = c, !.type = t]

IsRes(r) == r.status > 0
IsErr(r) == r.status = -1

(***************************************************************************)
(* Cache entries: the cacache index entry (metadata, integrity) with the   *)
(* content it addresses.  bodyStatus / bodyMethod record which exchange    *)
(* wrote the content (history only).                                       *)
(***************************************************************************)
Digest(body) == <<"sha512", body>>

NoEntry ==
  [url |-> NoUrl, reqHeaders |-> NoReqHeaders, resHeaders |-> NoHeaders,
   body |-> "", integrity |-> Digest(""), present |-> FALSE,
   bodyStatus |-> 0, bodyMethod |-> ""]


(***************************************************************************)
(* Freshness (RFC 7234 section 4.2).  Lifetimes are returned in tenths of  *)
(* a second so that the 0.1 factor of the heuristic stays an integer.      *)
(***************************************************************************)
Min(a, b) == IF a <= b THEN a ELSE b

\* new Date(res.headers.get('Date') || new Date())
DateOf(hs, now) == IF hs.date # -1 THEN hs.date ELSE now

heuristicFreshness(hs, now) ==
  IF hs.lastModified # -1
    THEN Min(DateOf(hs, now) - hs.lastModified, 10 * HeuristicCap)
    ELSE 10 * HeuristicCap

\* A lifetime that looks at max-age before no-cache.
freshnessLifetime_MaxAgeFirst(hs, now) ==
  IF hs.maxAge # -1 THEN 10 * hs.maxAge
  ELSE IF "no-cache" \in hs.cc \/ hs.pragma = "no-cache" THEN 0
  ELSE IF hs.expires # -1 THEN 10 * (hs.expires - DateOf(hs, now))
  ELSE heuristicFreshness(hs, now)

freshnessLifetime(hs, now) ==
  IF "no-cache" \in hs.cc \/ hs.pragma = "no-cache" THEN 0
  ELSE IF hs.maxAge # -1 THEN 10 * hs.maxAge
  ELSE IF hs.expires # -1 THEN 10 * (hs.expires - DateOf(hs, now))
  ELSE heuristicFreshness(hs, now)

\* A staleness test without the immutable case.
isStale_NoImmutable(hs, now) ==
  IF "must-revalidate" \in hs.cc THEN TRUE
  ELSE freshnessLifetime(hs, now) <= 10 * (now - DateOf(hs, now))

isStale(hs, now) ==
  IF "must-revalidate" \in hs.cc THEN TRUE
  ELSE IF "immutable" \in hs.cc THEN FALSE
  ELSE freshnessLifetime(hs, now) <= 10 * (now - DateOf(hs, now))

\* heuristicFreshness, when it is reached, marks a response that has no
\* Warning with Warning: 113.
UsesHeuristic(hs) ==
  /\ "must-revalidate" \notin hs.cc
  /\ "immutable" \notin hs.cc
  /\ "no-cache" \notin hs.cc
  /\ hs.pragma # "no-cache"
  /\ hs.maxAge = -1
  /\ hs.expires = -1

AfterIsStale(hs) ==
  IF UsesHeuristic(hs) /\ hs.warning = 0 THEN [hs EXCEPT !.warning = 113]
  ELSE hs

mustRevalidate(res) == "must-revalidate" \in res.headers.cc

\* setWarning: headers.set('Warning', `${code} ...`)
setWarning(res, code) == [res EXCEPT !.headers.warning = code]

\* Headers.get: names are matched case-insensitively, absent is null.
Null == "<null>"
Get(headers, name) ==
  IF \E h \in DOMAIN headers : toLowerCase(h) = name
    THEN headers[CHOOSE h \in DOMAIN headers : toLowerCase(h) = name]
    ELSE Null

\* makePolicy(req, res).storable(): a GET/HEAD exchange without no-store
\* in the request's or the response's Cache-Control.
storable(req, res) ==
  /\ req.method \in {"GET", "HEAD"}
  /\ Get(req.headers, "cache-control") # "no-store"
  /\ "no-store" \notin res.headers.cc

(***************************************************************************)
(* Cache.match and matchDetails.                                           *)
(***************************************************************************)
AlgoRank(a) == CASE a = "sha512" -> 3 [] a = "sha384" -> 2 [] OTHER -> 1

\* ssri pickAlgorithm: the strongest algorithm among the hashes given.
pickAlgorithm(sri) ==
  (CHOOSE h \in sri : \A g \in sri : AlgoRank(g[1]) <= AlgoRank(h[1]))[1]

\* A Vary header that names no field.
VaryFields_None(vary) == {}

\* vary.split(/\s*,\s*/), for the Vary values the model uses.
VaryFields(vary) == IF vary = "" THEN {} ELSE {vary}

\* A comparison of the cache keys alone.
matchDetails_PathOnly(req, cached) ==
  /\ cached.resHeaders.vary # "*"
  /\ \A field \in VaryFields(cached.resHeaders.vary) :
        Get(cached.reqHeaders, field) = Get(req.headers, field)
  /\ \/ cached.integrity = {}
     \/ LET algo == pickAlgorithm(cached.integrity)
        IN cached.cacheIntegrity[1] = algo =>
             \E hash \in cached.integrity :
                hash[1] = algo /\ hash[2] = cached.cacheIntegrity[2]
  /\ req.url.path = cached.url.path

\* matchDetails: url.format leaves the fragment out once hash is null.
matchDetails(req, cached) ==
  /\ cached.resHeaders.vary # "*"
  /\ \A field \in VaryFields(cached.resHeaders.vary) :
        Get(cached.reqHeaders, field) = Get(req.headers, field)
  /\ \/ cached.integrity = {}
     \/ LET algo == pickAlgorithm(cached.integrity)
        IN cached.cacheIntegrity[1] = algo =>
             \E hash \in cached.integrity :
                hash[1] = algo /\ hash[2] = cached.cacheIntegrity[2]
  /\ req.url.path = cached.url.path
  /\ req.url.query = cached.url.query

\* A match that hands the stored content to a HEAD as well.
match_WithBody(st, req, opts) ==
  LET info == st[cacheKey(req)] IN
  IF info.present /\ matchDetails(req,
       [url |-> info.url, reqHeaders |-> info.reqHeaders,
        resHeaders |-> info.resHeaders, cacheIntegrity |-> info.integrity,
        integrity |-> opts.integrity])
    THEN [Res(200, info.resHeaders, info.body) EXCEPT !.src = "cache"]
    ELSE NoRes

\* The response Cache.match resolves with (NoRes for undefined).
match(st, req, opts) ==
  LET info == st[cacheKey(req)] IN
  IF info.present /\ matchDetails(req,
       [url |-> info.url, reqHeaders |-> info.reqHeaders,
        resHeaders |-> info.resHeaders, cacheIntegrity |-> info.integrity,
        integrity |-> opts.integrity])
    THEN [Res(200, info.resHeaders,
              IF req.method = "HEAD" THEN "" ELSE info.body)
            EXCEPT !.src = "cache"]
    ELSE NoRes


(***************************************************************************)
(* Inputs: the options of a fetch call and the answers of the origin.      *)
(***************************************************************************)
Bodies == {"b1", "b2"}

CallerHeaders == {NoReqHeaders, [h \in {"If-None-Match"} |-> "foo"]}

NoOpts ==
  [method |-> "", url |-> NoUrl, cm |-> FALSE, cache |-> "",
   headers |-> NoReqHeaders, retries |-> 0, stream |-> FALSE,
   integrity |-> {}]

\* opts.cache "" is an absent option; without a cacheManager it has no effect.
OptSet ==
  {o \in [method : Methods, url : URLs, cm : BOOLEAN, cache : Modes \cup {""},
          headers : CallerHeaders, retries : 0..MaxRetries,
          stream : BOOLEAN, integrity : {{}}] :
     /\ ~o.cm => o.cache = "" /\ o.headers = NoReqHeaders /\ ~o.stream
     /\ o.cm /\ o.cache = "" => o.headers = NoReqHeaders /\ o.retries = 0
     /\ o.headers # NoReqHeaders => o.method = "GET" /\ o.retries = 0
     /\ o.method = "POST" =>
          o.cache \in {"", "default", "no-store", "only-if-cached"}
     /\ o.method = "PUT" => o.cache \in {"", "default"}
     /\ o.stream => o.method = "PUT"
     /\ o.retries > 0 => o.cache \in {"", "default", "no-cache"}}

H(cc, maxAge, etag, date) ==
  [NoHeaders EXCEPT !.cc = cc, !.maxAge = maxAge, !.etag = etag,
                    !.date = date]

\* Header sets an origin sends with a 200.
OkHeaders(now) ==
  {H({}, 1, "e1", now), H({"no-store"}, -1, "", -1),
   H({"immutable"}, -1, "", now), H({"must-revalidate"}, 1, "e1", now)}

\* Header sets an origin sends with a 304.
NotModifiedHeaders(now) ==
  {H({}, -1, "e1", -1), H({}, 1, "e1", now), H({"no-store"}, -1, "e1", -1)}

OriginResponses(now, conditional) ==
  {r \in {Res(200, hs, b) : hs \in OkHeaders(now), b \in Bodies} :
     r.body = "b1" \/ r.headers.cc \in {{}, {"immutable"}}}
  \cup {Res(201, H({}, 1, "", now), "b1"), Res(404, NoHeaders, "b1"),
        Res(429, NoHeaders, "b1"), Res(500, NoHeaders, "b1")}
  \cup (IF conditional
          THEN {Res(304, hs, "") : hs \in NotModifiedHeaders(now)}
          ELSE {})

TransportErrors ==
  {Err("ECONNRESET", "system"), Err("ENOTFOUND", "system"),
   Err("", "request-timeout")}

(***************************************************************************)
(* The state of one fetch call.                                            *)
(***************************************************************************)
\* What the history keeps of a completed call.  kind is "invalidated" for
\* a call with a cacheManager and a method other than GET/HEAD that got a
\* response (had: an entry was under its key when it began), "cacheable200"
\* for a GET with a cacheManager, not in mode no-store, whose result was a
\* network 200 without no-store that the caller drained (res: that result).
NoLast == [kind |-> "", url |-> NoUrl, mode |-> "", res |-> NoRes,
           had |-> FALSE]

IdleFetch ==
  [pc |-> "idle", opts |-> NoOpts,
   mode |-> "",            \* opts.cache after normalisation
   hdrs |-> NoReqHeaders,  \* opts.headers (condFetch replaces them)
   cached |-> NoRes,       \* what cacheManager.match resolved with
   inCond |-> FALSE,       \* remoteFetch was called by condFetch
   attempt |-> 0,          \* attemptNum of promise-retry
   res |-> NoRes,          \* the response a cache operation is pending for
   pend |-> NoEntry,       \* entry the tee commits when the body has drained
   result |-> NoRes,       \* what the fetch promise settled with
   how |-> "",             \* "resolved" or "rejected", once it has settled
   \* history
   matched |-> FALSE,      \* cacheManager.match has been called
   stale |-> FALSE,        \* isStale of the matched response at that time
   net |-> 0,              \* transport requests issued
   gotRes |-> FALSE,       \* some transport request was answered
   sent |-> NoReqHeaders,  \* opts.headers of the last transport request
   answer |-> NoRes,       \* the outcome of the last transport request
   had |-> FALSE,          \* an entry was under the key when the call began
   outdated |-> FALSE,     \* the key was invalidated after a response came
   prev |-> NoLast]        \* the call completed before this one began

BaseHeaders ==
  [h \in {"connection", "user-agent"} |->
     IF h = "connection" THEN "keep-alive" ELSE "make-fetch-happen"]

\* new fetch.Request(uri, {method, headers}) of cachingFetch
CacheReq(f) ==
  [method |-> f.opts.method, url |-> f.opts.url, headers |-> f.opts.headers]

\* new fetch.Request(uri, reqOpts) of remoteFetch
RemoteReq(f) ==
  [method |-> f.opts.method, url |-> f.opts.url,
   headers |-> Assign(BaseHeaders, f.hdrs)]


ENOTCACHED == Err("ENOTCACHED", "")
\* "Cannot read property 'integrity' of null" (no code, no type)
TypeError == [Err("", "") EXCEPT !.src = "TypeError"]

(***************************************************************************)
(* Promise continuations.  Each operator maps the fetch state to the state *)
(* at the next suspension point (a cache operation, a transport request)   *)
(* or at the settlement of the promise fetch returned.                     *)
(***************************************************************************)
\* A callback after which the promise stays pending.
Settle_Pending(f, r) == f

\* A callback returns r (the promise resolves) or throws the Error r.
Settle(f, r) ==
  [f EXCEPT !.pc = "resolved", !.result = r,
            !.how = IF IsErr(r) THEN "rejected" ELSE "resolved"]

\* A callback throws x, whatever x is.
Reject(f, x) == [f EXCEPT !.pc = "resolved", !.result = x, !.how = "rejected"]

\* A continuation that leaves the 304 its own body.
CondThen_OwnBody(f, condRes) ==
  IF condRes.status = 304
    THEN [f EXCEPT !.pc = "condPut", !.res = condRes]
  ELSE IF condRes.status >= 500 /\ ~mustRevalidate(f.cached)
    THEN Settle(f, setWarning(f.cached, 111))
  ELSE Settle(f, condRes)

\* condFetch: .then(condRes => ...)
CondThen(f, condRes) ==
  IF condRes.status = 304
    THEN [f EXCEPT !.pc = "condPut",
                   !.res = [condRes EXCEPT !.body = f.cached.body]]
  ELSE IF condRes.status >= 500 /\ ~mustRevalidate(f.cached)
    THEN Settle(f, setWarning(f.cached, 111))
  ELSE Settle(f, condRes)

\* A catch that serves the matched response whatever its Cache-Control.
CondCatch_AlwaysStale(f, err) == Settle(f, setWarning(f.cached, 111))

\* condFetch: .catch(err => ...)
CondCatch(f, err) ==
  IF mustRevalidate(f.cached) THEN Reject(f, err)
  ELSE Settle(f, setWarning(f.cached, 111))

RemoteResolved(f, r) == IF f.inCond THEN CondThen(f, r) ELSE Settle(f, r)
RemoteRejected(f, e) == IF f.inCond THEN CondCatch(f, e) ELSE Reject(f, e)

\* A final catch that rethrows whatever it caught.
FinalCatch_Rethrows(f, x) == RemoteRejected(f, x)

\* remoteFetch: retry(...).catch(err => ...): a caught value with
\* status >= 400 is returned, anything else is thrown again.
FinalCatch(f, x) ==
  IF x.status >= 400 THEN RemoteResolved(f, x)
  ELSE RemoteRejected(f, x)

\* A retry that allows one attempt more than retries + 1.
Retry_OneMore(f, x) ==
  IF f.attempt < f.opts.retries + 2 THEN [f EXCEPT !.pc = "attempt"]
  ELSE FinalCatch(f, x)

\* retryHandler(x): promise-retry runs another attempt while retries remain;
\* otherwise it rejects with x, and remoteFetch's final catch turns an x
\* with status >= 400 into the resolution.
Retry(f, x) ==
  IF f.attempt < f.opts.retries + 1 THEN [f EXCEPT !.pc = "attempt"]
  ELSE FinalCatch(f, x)

RetriableStatus(st) == st = 408 \/ st = 420 \/ st = 429 \/ st >= 500

\* The metadata Cache.put builds, with the content it will address.
Entry(req, res, body, bodyStatus, bodyMethod) ==
  [url |-> req.url, reqHeaders |-> req.headers, resHeaders |-> res.headers,
   body |-> body, integrity |-> Digest(body), present |-> TRUE,
   bodyStatus |-> bodyStatus, bodyMethod |-> bodyMethod]

\* A store branch without the status test.
StoreBranch_AnyStatus(f, req, res) ==
  /\ f.opts.cm
  /\ f.mode # "no-store"
  /\ req.method \in {"GET", "HEAD"}
  /\ storable(req, res)

\* The branch remoteFetch takes to store a response.
StoreBranch(f, req, res) ==
  /\ f.opts.cm
  /\ f.mode # "no-store"
  /\ req.method \in {"GET", "HEAD"}
  /\ storable(req, res)
  /\ res.status = 200

\* An invalidation branch taken by POST alone.
DeleteBranch_PostOnly(f, req) ==
  /\ f.opts.cm
  /\ req.method = "POST"

\* The branch remoteFetch takes to invalidate the entry of the request.
DeleteBranch(f, req) ==
  /\ f.opts.cm
  /\ req.method \notin {"GET", "HEAD"}

\* remoteFetch: fetch(req).then(res => ...)
RemoteThen(f, res) ==
  LET req == RemoteReq(f) IN
  IF StoreBranch(f, req, res)
    THEN IF req.method = "HEAD" \/ res.status = 304
           THEN [f EXCEPT !.pc = "putMeta", !.res = res]
           ELSE RemoteResolved(
                  [f EXCEPT !.pend = Entry(req, res, res.body, res.status,
                                           req.method)],
                  [res EXCEPT !.tee = TRUE])
  ELSE IF DeleteBranch(f, req)
    THEN [f EXCEPT !.pc = "delete", !.res = res]
  ELSE IF RetriableStatus(res.status)
    THEN IF req.method = "POST" THEN RemoteResolved(f, res)
         ELSE IF f.opts.stream THEN RemoteResolved(f, res)
         ELSE Retry(f, res)
  ELSE RemoteResolved(f, res)

\* A catch that does not look at the method.
RemoteCatch_AnyMethod(f, err) ==
  IF \/ err.code \in RETRY_ERRORS
     \/ err.type \in RETRY_TYPES
    THEN Retry(f, err)
    ELSE RemoteRejected(f, err)

\* remoteFetch: .catch(err => ...) of one attempt
RemoteCatch(f, err) ==
  IF /\ f.opts.method # "POST"
     /\ \/ err.code \in RETRY_ERRORS
        \/ err.type \in RETRY_TYPES
    THEN Retry(f, err)
    ELSE RemoteRejected(f, err)

\* condFetch: the caller's headers plus the validators of the cached
\* response.
RevalidationHeaders(f) ==
  LET hs == f.cached.headers
      e == IF hs.etag # ""
             THEN [h \in {IF f.opts.method # "GET" THEN "if-match"
                          ELSE "if-none-match"} |-> hs.etag]
             ELSE NoReqHeaders
      m == IF hs.lastModified # -1
             THEN [h \in {IF f.opts.method \notin {"GET", "HEAD"}
                            THEN "if-unmodified-since"
                            ELSE "if-modified-since"} |-> hs.lastModified]
             ELSE NoReqHeaders
  IN Assign(Assign(f.opts.headers, e), m)

\* revalidatedPolicy(...).policy.responseHeaders(): the stored headers
\* refreshed with those of a 304 whose validator selects the stored response,
\* else the headers of the 304 alone.
RevalidatedHeaders(old, new) ==
  IF (new.etag # "" /\ new.etag = old.etag)
     \/ (new.etag = "" /\ old.etag = ""
         /\ new.lastModified = old.lastModified)
    THEN [old EXCEPT !.cc = IF new.cc # {} \/ new.maxAge # -1
                              THEN new.cc ELSE @,
                     !.maxAge = IF new.cc # {} \/ new.maxAge # -1
                                  THEN new.maxAge ELSE @,
                     !.date = IF new.date # -1 THEN new.date ELSE @,
                     !.expires = IF new.expires # -1 THEN new.expires ELSE @,
                     !.attempts = new.attempts]
    ELSE new


(***************************************************************************)
(* fetch.defaults.  A JavaScript value is a record of its type tag, its   *)
(* string and its own enumerable properties; typeof null is "object".      *)
(***************************************************************************)
NoObj == [k \in {} |-> ""]
Val(t, str, obj) == [t |-> t, s |-> str, o |-> obj]
Undefined == Val("undefined", "", NoObj)
JsNull == Val("null", "", NoObj)
Str(x) == Val("string", x, NoObj)
Obj(o) == Val("object", "", o)

typeof(v) == IF v.t = "null" THEN "object" ELSE v.t
Truthy(v) == v.t = "object" \/ (v.t = "string" /\ v.s # "")
\* a || b
Or(a, b) == IF Truthy(a) THEN a ELSE b

\* cachingFetch.defaults(_uri, _opts): the variables defaultedFetch closes
\* over; args keeps the arguments as they were given.
defaults(_uri, _opts) ==
  IF typeof(_uri) = "object"
    THEN [uri |-> JsNull, opts |-> _uri, args |-> <<_uri, _opts>>]
    ELSE [uri |-> _uri, opts |-> _opts, args |-> <<_uri, _opts>>]

\* A merge in which the keys of the defaults win.
finalOpts_BaseWins(_opts, opts) ==
  IF Truthy(opts) /\ Truthy(_opts) THEN Obj(Assign(opts.o, _opts.o))
  ELSE IF Truthy(opts) THEN opts
  ELSE IF Truthy(_opts) THEN _opts
  ELSE Obj(NoObj)

\* defaultedFetch: finalOpts
finalOpts(_opts, opts) ==
  IF Truthy(opts) /\ Truthy(_opts) THEN Obj(Assign(_opts.o, opts.o))
  ELSE IF Truthy(opts) THEN opts
  ELSE IF Truthy(_opts) THEN _opts
  ELSE Obj(NoObj)

\* defaultedFetch(uri, opts) of the n-th closure of chain: it calls the
\* function defaults was called on, which is the closure before it or, for
\* the first, cachingFetch; the result is what cachingFetch receives.
RECURSIVE defaultedFetch(_, _, _, _)
defaultedFetch(chain, n, uri, opts) ==
  IF n = 0 THEN [uri |-> uri, opts |-> opts]
  ELSE defaultedFetch(chain, n - 1, Or(uri, chain[n].uri),
                      finalOpts(chain[n].opts, opts))

NoWrap ==
  [chain |-> << >>, called |-> FALSE,
   args |-> [uri |-> Undefined, opts |-> Undefined],
   got |-> [uri |-> Undefined, opts |-> Undefined]]

BaseUrls == {"u1", "u2"}
CallUrls == {"u3"}
OptObjs ==
  {NoObj, [k \in {"cache"} |-> "a"], [k \in {"cache"} |-> "b"],
   [k \in {"retry"} |-> "a"],
   [k \in {"cache", "retry"} |-> IF k = "cache" THEN "a" ELSE "b"]}

\* defaults(), defaults(url), defaults(url, opts), defaults(undefined, opts)
\* and defaults(opts)
DefaultsArgs ==
  {<<u, o>> : u \in {Undefined} \cup {Str(x) : x \in BaseUrls},
              o \in {Undefined} \cup {Obj(x) : x \in OptObjs}}
  \cup {<<Obj(x), Undefined>> : x \in OptObjs}

\* f.defaults(_uri, _opts) on the function built last (on cachingFetch when
\* there is none yet).
Defaults ==
  /\ Len(wrap.chain) < MaxChain
  /\ \E a \in DefaultsArgs :
       wrap' = [NoWrap EXCEPT
                  !.chain = Append(wrap.chain, defaults(a[1], a[2]))]
  /\ UNCHANGED <<store, fx, clock, last, tee, pool>>

\* A call of the function built last.
CallDefaulted ==
  /\ Len(wrap.chain) >= 1
  /\ \E uri \in {Undefined} \cup {Str(x) : x \in CallUrls},
        opts \in {Undefined} \cup {Obj(x) : x \in OptObjs} :
       wrap' = [wrap EXCEPT
                  !.called = TRUE,
                  !.args = [uri |-> uri, opts |-> opts],
                  !.got = defaultedFetch(wrap.chain, Len(wrap.chain),
                                         uri, opts)]
  /\ UNCHANGED <<store, fx, clock, last, tee, pool>>

(***************************************************************************)
(* The body pipeline of Cache.put for a response that has a body.          *)
(***************************************************************************)
NoTee ==
  [pc |-> "idle",
   inMem |-> FALSE,     \* fitInMemory
   up |-> << >>,        \* chunks oldBody has still to deliver
   cur |-> "",          \* the chunk whose write callback is pending
   target |-> FALSE,    \* cacheTargetStream has been created
   written |-> << >>,   \* chunks cacheTargetStream has accepted
   fwd |-> << >>,       \* chunks written to newBody
   newBody |-> "open",  \* "open", "ended" or "errored"
   error |-> "",        \* the error newBody emitted
   failure |-> ""]      \* the error that occurred in the pipeline

Chunks == {"x", "y"}
TeeBodies == UNION {[1..n -> Chunks] : n \in 0..MaxChunks}

(***************************************************************************)
(* getAgent.  A request is what getAgent reads of uri and opts; "" is an   *)
(* absent option.  process.env holds no proxy setting.                     *)
(***************************************************************************)
NoAgentReq ==
  [https |-> FALSE, proxy |-> "", ca |-> "", cert |-> "", key |-> "",
   agent |-> ""]
NoAgent == [id |-> 0, kind |-> "", ca |-> "", cert |-> "", key |-> "",
            by |-> NoAgentReq]
NoPool == [cache |-> [k \in {} |-> NoAgent], made |-> 0,
           req |-> NoAgentReq, got |-> NoAgent]

AgentReqs ==
  {r \in [https : BOOLEAN, proxy : {"", "https://px:8080"},
          ca : {"", "caA"}, cert : {"", "certA", "certB"},
          key : {"", "keyA"}, agent : {"", "own"}] :
     /\ r.key # "" => r.cert = "certA" /\ r.ca = ""
     /\ r.agent # "" => r.ca = "" /\ r.cert = "" /\ r.key = ""}

\* getProxyUri: opts.proxy, or no proxy
getProxyUri(r) == r.proxy

\* The parts getAgent joins into the key of AGENT_CACHE.
AgentKey(r) ==
  <<r.https,
    IF getProxyUri(r) # "" THEN getProxyUri(r) ELSE ">no-proxy<",
    IF r.https /\ r.ca # "" THEN r.ca ELSE ">no-ca<",
    IF r.https /\ r.cert # "" THEN r.cert ELSE ">no-cert<",
    IF r.https /\ r.key # "" THEN r.key ELSE ">no-key<">>

\* The agent getAgent builds on a miss: getProxy(pxuri, opts), an
\* HttpsAgent with the TLS options, or an HttpAgent without them.
NewAgent(r, id) ==
  IF getProxyUri(r) # ""
    THEN [id |-> id, kind |-> "proxy", ca |-> r.ca, cert |-> r.cert,
          key |-> r.key, by |-> r]
  ELSE IF r.https
    THEN [id |-> id, kind |-> "https", ca |-> r.ca, cert |-> r.cert,
          key |-> r.key, by |-> r]
  ELSE [id |-> id, kind |-> "http", ca |-> "", cert |-> "", key |-> "",
        by |-> r]

\* getAgent(uri, opts)
GetAgent ==
  \E r \in AgentReqs :
    LET k == AgentKey(r) IN
    /\ IF r.agent # ""
         THEN pool' = [pool EXCEPT !.req = r,
                         !.got = [NoAgent EXCEPT !.kind = r.agent, !.by = r]]
       ELSE IF k \in DOMAIN pool.cache
         THEN pool' = [pool EXCEPT !.req = r, !.got = pool.cache[k]]
       ELSE /\ pool.made < MaxAgents
            /\ LET a == NewAgent(r, pool.made + 1) IN
               pool' = [cache |-> [x \in DOMAIN pool.cache \cup {k} |->
                                     IF x = k THEN a ELSE pool.cache[x]],
                        made |-> pool.made + 1, req |-> r, got |-> a]
    /\ UNCHANGED <<store, fx, clock, last, wrap, tee>>

(***************************************************************************)
(* Actions.                                                                *)
(***************************************************************************)
Init ==
  /\ store = [k \in Keys |-> NoEntry]
  /\ fx = [p \in Procs |-> IdleFetch]
  /\ clock = 0
  /\ last = NoLast
  /\ wrap = NoWrap
  /\ tee = NoTee
  /\ pool = NoPool

\* A lookup condition that lets mode reload through.
ReadsCache_WithReload(method, cm, mode) ==
  /\ method = "GET" \/ method = "HEAD"
  /\ cm
  /\ mode # "no-store"

\* cachingFetch: the requests that are looked up in the cache.
ReadsCache(method, cm, mode) ==
  /\ method = "GET" \/ method = "HEAD"
  /\ cm
  /\ mode # "no-store"
  /\ mode # "reload"

\* A first branch that does not look at staleness.
ServesFresh_IgnoringStale(mode, stale) == mode = "default"

\* cachingFetch: opts.cache === 'default' && !isStale(req, res)
ServesFresh(mode, stale) == mode = "default" /\ ~stale

\* A second branch taken in mode default alone.
Revalidates_DefaultOnly(mode) == mode = "default"

\* cachingFetch: opts.cache === 'default' || opts.cache === 'no-cache'
Revalidates(mode) == mode = "default" \/ mode = "no-cache"

\* A third branch taken in mode only-if-cached alone.
ServesAny_OnlyIfCached(mode) == mode = "only-if-cached"

\* cachingFetch: opts.cache === 'force-cache' || ... === 'only-if-cached'
ServesAny(mode) == mode = "force-cache" \/ mode = "only-if-cached"

\* cachingFetch: what becomes of the response match resolved with.
Decide(mode, found, stale) ==
  IF found /\ ServesFresh(mode, stale) THEN "serve"
  ELSE IF found /\ Revalidates(mode) THEN "cond"
  ELSE IF found /\ ServesAny(mode) THEN "serve"
  ELSE IF ~found /\ mode = "only-if-cached" THEN "ENOTCACHED"
  ELSE "remote"

\* cachingFetch(uri, o) up to its first suspension point: option
\* normalisation and the choice between cacheManager.match and remoteFetch.
Begin(p, o) ==
  /\ fx[p].pc = "idle"
  /\ LET cache0 == IF o.cm THEN (IF o.cache = "" THEN "default" ELSE o.cache)
                    ELSE ""
         mode == IF o.cm /\ cache0 = "default" /\ isConditional(o.headers)
                   THEN "no-store" ELSE cache0
         f0 == [IdleFetch EXCEPT !.opts = o, !.mode = mode,
                                 !.hdrs = o.headers, !.prev = last,
                                 !.had = store[o.url.path].present]
     IN fx' = [fx EXCEPT ![p] =
                 IF ReadsCache(o.method, o.cm, mode)
                   THEN [f0 EXCEPT !.pc = "match"]
                   ELSE [f0 EXCEPT !.pc = "attempt"]]
  /\ UNCHANGED <<store, clock, last, wrap, tee, pool>>

\* A call made while no other call is under way.
StartWith(p, o) ==
  /\ \A q \in Procs : fx[q].pc = "idle"
  /\ Begin(p, o)

Start(p) == \E o \in OptSet : StartWith(p, o)

\* A cache hit that keeps the stored Warning whatever its code.
StripWarning_Keep(res) == res

\* cachingFetch: res.headers.delete('Warning') for a warn-code 100..199
StripWarning(res) ==
  IF IsRes(res) /\ res.headers.warning >= 100 /\ res.headers.warning < 200
    THEN [res EXCEPT !.headers.warning = 0] ELSE res

\* cachingFetch: opts.cacheManager.match(req, opts).then(res => ...)
MatchThen(p) ==
  LET f == fx[p]
      res0 == match(store, CacheReq(f), f.opts)
      res1 == StripWarning(res0)
      \* isStale is evaluated in mode default only
      res == IF IsRes(res1) /\ f.mode = "default"
               THEN [res1 EXCEPT !.headers = AfterIsStale(@)] ELSE res1
      stale == IsRes(res1) /\ isStale(res1.headers, clock)
      f1 == [f EXCEPT !.matched = TRUE, !.cached = res, !.stale = stale]
      todo == Decide(f.mode, IsRes(res), stale)
  IN
  /\ f.pc = "match"
  /\ fx' = [fx EXCEPT ![p] =
       CASE todo = "serve" -> Settle(f1, res)
         [] todo = "cond" -> [f1 EXCEPT !.pc = "attempt", !.inCond = TRUE,
                                        !.hdrs = RevalidationHeaders(f1)]
         [] todo = "ENOTCACHED" -> Settle(f1, ENOTCACHED)
         [] OTHER -> [f1 EXCEPT !.pc = "attempt"]]
  /\ UNCHANGED <<store, clock, last, wrap, tee, pool>>

AsksValidation(headers) ==
  Get(headers, "if-none-match") # Null \/ Get(headers, "if-modified-since") # Null

\* One attempt of remoteFetch: the transport exchange and the callbacks
\* that run on its outcome.
AttemptFrom(p, outcomes) ==
  LET f == fx[p] IN
  /\ f.pc = "attempt"
  /\ \E out \in outcomes :
       LET f1 == [f EXCEPT !.attempt = @ + 1, !.net = @ + 1, !.sent = f.hdrs,
                           !.gotRes = @ \/ IsRes(out), !.answer = out]
           res == [out EXCEPT !.headers.attempts = f1.attempt,
                              !.body = IF f.opts.method = "HEAD" THEN ""
                                       ELSE @]
       IN fx' = [fx EXCEPT ![p] = IF IsRes(out) THEN RemoteThen(f1, res)
                                  ELSE RemoteCatch(f1, out)]
  /\ UNCHANGED <<store, clock, last, wrap, tee, pool>>

\* What the transport may answer to the request of f.
Outcomes(f) ==
  OriginResponses(clock, AsksValidation(RemoteReq(f).headers))
    \cup TransportErrors

Attempt(p) == AttemptFrom(p, Outcomes(fx[p]))

\* Cache.put for a HEAD request, called by remoteFetch: the metadata of the
\* entry is rewritten, its content is kept.
PutMetaDone(p) ==
  LET f == fx[p]
      req == RemoteReq(f)
      info == store[cacheKey(req)]
  IN
  /\ f.pc = "putMeta"
  /\ IF info.present
       THEN /\ store' = [store EXCEPT ![cacheKey(req)] =
                           Entry(req, f.res, info.body, info.bodyStatus,
                                 info.bodyMethod)]
            /\ fx' = [fx EXCEPT ![p] = RemoteResolved(f, f.res)]
       ELSE /\ store' = store
            /\ fx' = [fx EXCEPT ![p] = RemoteCatch(f, TypeError)]
  /\ UNCHANGED <<clock, last, wrap, tee, pool>>

\* remoteFetch: opts.cacheManager.delete(req).then(() => ...)
DeleteDone(p) ==
  LET f == fx[p]
      req == RemoteReq(f)
  IN
  /\ f.pc = "delete"
  /\ store' = [store EXCEPT ![cacheKey(req)] = NoEntry]
  /\ fx' = [q \in DOMAIN fx |->
       IF q = p
         THEN IF f.res.status >= 500
                THEN IF req.method = "POST" THEN RemoteResolved(f, f.res)
                     ELSE IF f.opts.stream THEN RemoteResolved(f, f.res)
                     ELSE Retry(f, f.res)
                ELSE RemoteResolved(f, f.res)
       ELSE IF fx[q].gotRes /\ cacheKey(RemoteReq(fx[q])) = cacheKey(req)
         THEN [fx[q] EXCEPT !.outdated = TRUE]
       ELSE fx[q]]
  /\ UNCHANGED <<clock, last, wrap, tee, pool>>

\* condFetch on a 304: opts.cacheManager.put(req, condRes, opts).then(...)
CondPutDone(p) ==
  LET f == fx[p]
      req == CacheReq(f)
      info == store[cacheKey(req)]
  IN
  /\ f.pc = "condPut"
  /\ IF info.present
       THEN /\ store' = [store EXCEPT ![cacheKey(req)] =
                           Entry(req, f.res, info.body, info.bodyStatus,
                                 info.bodyMethod)]
            /\ fx' = [fx EXCEPT ![p] =
                 Settle(f, setWarning(
                   [f.res EXCEPT !.headers =
                      RevalidatedHeaders(f.cached.headers, @)], 110))]
       ELSE /\ store' = store
            /\ fx' = [fx EXCEPT ![p] = CondCatch(f, TypeError)]
  /\ UNCHANGED <<clock, last, wrap, tee, pool>>

Summary(f, drained) ==
  IF f.opts.cm /\ f.opts.method \notin {"GET", "HEAD"} /\ f.gotRes
    THEN [NoLast EXCEPT !.kind = "invalidated", !.url = f.opts.url,
                        !.mode = f.mode, !.had = f.had]
  ELSE IF /\ drained /\ f.opts.cm /\ f.opts.method = "GET"
          /\ f.mode # "no-store"
          /\ f.result.status = 200 /\ f.result.src = "net"
          /\ "no-store" \notin f.result.headers.cc
    THEN [NoLast EXCEPT !.kind = "cacheable200", !.url = f.opts.url,
                        !.mode = f.mode, !.res = f.result]
  ELSE IF ~drained /\ IsRes(f.result) /\ f.result.tee /\ ~f.had
    THEN [NoLast EXCEPT !.kind = "unread200", !.url = f.opts.url]
  ELSE NoLast

\* The caller reads the body to its end; a tee commits the entry.
Drain(p) ==
  LET f == fx[p] IN
  /\ f.pc = "resolved"
  /\ IsRes(f.result)
  /\ store' = IF f.result.tee
                THEN [store EXCEPT ![cacheKey(RemoteReq(f))] = f.pend]
                ELSE store
  /\ last' = Summary(f, TRUE)
  /\ fx' = [fx EXCEPT ![p] = IdleFetch]
  /\ UNCHANGED <<clock, wrap, tee, pool>>

\* A tee that commits the entry although no chunk was read.
Abandon_Commits(p) ==
  LET f == fx[p] IN
  /\ f.pc = "resolved"
  /\ store' = IF IsRes(f.result) /\ f.result.tee
                THEN [store EXCEPT ![cacheKey(RemoteReq(f))] = f.pend]
                ELSE store
  /\ last' = Summary(f, FALSE)
  /\ fx' = [fx EXCEPT ![p] = IdleFetch]
  /\ UNCHANGED <<clock, wrap, tee, pool>>

\* The caller drops the response (or got an error) without reading a body.
Abandon(p) ==
  LET f == fx[p] IN
  /\ f.pc = "resolved"
  /\ last' = Summary(f, FALSE)
  /\ fx' = [fx EXCEPT ![p] = IdleFetch]
  /\ UNCHANGED <<store, clock, wrap, tee, pool>>

Tick ==
  /\ \A p \in Procs : fx[p].pc = "idle"
  /\ clock < MaxClock
  /\ clock' = clock + 1
  /\ UNCHANGED <<store, fx, last, wrap, tee, pool>>

Next ==
  \/ \E p \in Procs : Start(p)
  \/ \E p \in Procs : MatchThen(p)
  \/ \E p \in Procs : Attempt(p)
  \/ \E p \in Procs : PutMetaDone(p)
  \/ \E p \in Procs : DeleteDone(p)
  \/ \E p \in Procs : CondPutDone(p)
  \/ \E p \in Procs : Drain(p)
  \/ \E p \in Procs : Abandon(p)
  \/ Tick

Spec == Init /\ [][Next]_vars

(***************************************************************************)
(* Lookups against a populated cache.  The store holds one entry of the    *)
(* kind Cache.put writes for a GET answered with a 200; the calls vary     *)
(* the URL, the request headers, opts.integrity and the cache mode.        *)
(***************************************************************************)
MatchUrls ==
  URLs \cup {Url("/test", ""), [Url("/test", "a=1") EXCEPT !.hash = "frag"]}

StoredUrls ==
  {Url("/test", "a=1"), [Url("/test", "a=1") EXCEPT !.hash = "top"]}

MatchHeaders ==
  {NoReqHeaders, [h \in {"accept"} |-> "x"], [h \in {"Accept"} |-> "x"],
   [h \in {"accept"} |-> "y"]}

\* Response headers of the stored 200: with and without Vary, with a
\* Warning of the origin (112, 214) or none, with max-age 0 or 1.
StoredHeaders ==
  {[H({}, a, "e1", 0) EXCEPT !.vary = v, !.warning = w] :
     a \in {0, 1}, v \in {"", "accept", "*"}, w \in {0, 112, 214}}

\* ssri metadata of the caller: a digest of one of the two bodies.
Integrities ==
  {{}} \cup {{<<a, b>>} : a \in {"sha512", "sha1"}, b \in Bodies}

StoredEntries ==
  {Entry([method |-> "GET", url |-> u, headers |-> Assign(BaseHeaders, h)],
         Res(200, hs, "b1"), "b1", 200, "GET") :
     u \in StoredUrls, h \in MatchHeaders, hs \in StoredHeaders}

MatchOpts ==
  [method : {"GET"}, url : MatchUrls, cm : {TRUE},
   cache : {"default", "force-cache", "only-if-cached"},
   headers : MatchHeaders, retries : {0}, stream : {FALSE},
   integrity : Integrities]

InitMatch ==
  /\ store \in {[k \in Keys |-> e] : e \in StoredEntries \cup {NoEntry}}
  /\ fx = [p \in Procs |-> IdleFetch]
  /\ clock \in 0..MaxClock
  /\ last = NoLast
  /\ wrap = NoWrap
  /\ tee = NoTee
  /\ pool = NoPool

StartMatch(p) == \E o \in MatchOpts : StartWith(p, o)

NextMatch ==
  \/ \E p \in Procs : StartMatch(p)
  \/ \E p \in Procs : MatchThen(p)

SpecMatch == InitMatch /\ [][NextMatch]_vars

(***************************************************************************)
(* Freshness decisions.  The store holds a 200 whose caching headers are   *)
(* drawn from the combinations below; the clock stands at the Date of the  *)
(* response (5000) or 1, 2, 299 or 300 seconds after it.  Last-Modified    *)
(* 4990 gives a heuristic lifetime of 1 second, 1000 one that is capped.   *)
(***************************************************************************)
FreshHeaders ==
  {[NoHeaders EXCEPT !.cc = c, !.maxAge = a, !.pragma = pr, !.expires = x,
                     !.date = d, !.lastModified = lm, !.etag = "e1"] :
     c \in {{}, {"no-cache"}, {"immutable"}, {"must-revalidate"},
            {"immutable", "must-revalidate"}, {"immutable", "no-cache"}},
     a \in {-1, 0, 2}, pr \in {"", "no-cache"}, x \in {-1, 4999, 5001},
     d \in {-1, 5000}, lm \in {-1, 1000, 4990}}

FreshClocks == {5000, 5001, 5002, 5299, 5300}

FreshEntries ==
  {Entry([method |-> "GET", url |-> Url("/test", "a=1"),
          headers |-> BaseHeaders], Res(200, hs, "b1"), "b1", 200, "GET") :
     hs \in FreshHeaders}

FreshOpts ==
  [method : {"GET"}, url : {Url("/test", "a=1")}, cm : {TRUE},
   cache : {"default", "force-cache"}, headers : {NoReqHeaders},
   retries : {0}, stream : {FALSE}, integrity : {{}}]

InitFresh ==
  /\ store \in {[k \in Keys |-> e] : e \in FreshEntries}
  /\ fx = [p \in Procs |-> IdleFetch]
  /\ clock \in FreshClocks
  /\ last = NoLast
  /\ wrap = NoWrap
  /\ tee = NoTee
  /\ pool = NoPool

StartFresh(p) == \E o \in FreshOpts : StartWith(p, o)

NextFresh ==
  \/ \E p \in Procs : StartFresh(p)
  \/ \E p \in Procs : MatchThen(p)

SpecFresh == InitFresh /\ [][NextFresh]_vars

(***************************************************************************)
(* Progress of a call.  The caller starts calls for one URL and reads or   *)
(* drops what they resolve with as it pleases; every transport exchange    *)
(* and every cache operation that a call waits for comes to its end.       *)
(***************************************************************************)
LiveOpts ==
  {o \in OptSet : o.url = Url("/test", "a=1") /\ o.headers = NoReqHeaders}

StartLive(p) == \E o \in LiveOpts : StartWith(p, o)

NextLive ==
  \/ \E p \in Procs : StartLive(p)
  \/ \E p \in Procs : MatchThen(p)
  \/ \E p \in Procs : Attempt(p)
  \/ \E p \in Procs : PutMetaDone(p)
  \/ \E p \in Procs : DeleteDone(p)
  \/ \E p \in Procs : CondPutDone(p)
  \/ \E p \in Procs : Drain(p)
  \/ \E p \in Procs : Abandon(p)

Completes ==
  \A p \in Procs :
    /\ WF_vars(MatchThen(p))
    /\ WF_vars(Attempt(p))
    /\ WF_vars(PutMetaDone(p))
    /\ WF_vars(DeleteDone(p))
    /\ WF_vars(CondPutDone(p))

SpecLive == Init /\ [][NextLive]_vars /\ Completes

(***************************************************************************)
(* Two calls under way at once, for one URL.  The callbacks of the two     *)
(* calls interleave in any order; the clock stands still.                  *)
(***************************************************************************)
ConcProcs == {"c1", "c2"}

ConcOpts ==
  {o \in [method : {"GET", "POST"}, url : {Url("/test", "a=1")},
          cm : {TRUE}, cache : {"default", "no-cache", "reload"},
          headers : {NoReqHeaders}, retries : {0}, stream : {FALSE},
          integrity : {{}}] :
     IF o.method = "POST" THEN o.cache = "default" ELSE o.cache # "default"}

ConcOutcomes ==
  {Res(200, H({}, 1, "e1", 0), "b1"), Res(200, H({}, 1, "e1", 0), "b2"),
   Res(304, H({}, -1, "e1", -1), "")}

InitConc ==
  /\ store = [k \in Keys |-> NoEntry]
  /\ fx = [p \in ConcProcs |-> IdleFetch]
  /\ clock = 0
  /\ last = NoLast
  /\ wrap = NoWrap
  /\ tee = NoTee
  /\ pool = NoPool

StartConc(p) ==
  /\ \E o \in ConcOpts : Begin(p, o)

AttemptConc(p) == AttemptFrom(p, Outcomes(fx[p]) \cap ConcOutcomes)

NextConc ==
  \/ \E p \in ConcProcs : StartConc(p)
  \/ \E p \in ConcProcs : MatchThen(p)
  \/ \E p \in ConcProcs : AttemptConc(p)
  \/ \E p \in ConcProcs : DeleteDone(p)
  \/ \E p \in ConcProcs : CondPutDone(p)
  \/ \E p \in ConcProcs : Drain(p)
  \/ \E p \in ConcProcs : Abandon(p)

SpecConc == InitConc /\ [][NextConc]_vars

(***************************************************************************)
(* Calls of getAgent, one after the other.                                 *)
(***************************************************************************)
NextAgent ==
  \/ GetAgent

SpecAgent == Init /\ [][NextAgent]_vars

(***************************************************************************)
(* Building functions with fetch.defaults and calling them.                *)
(***************************************************************************)
NextDefaults ==
  \/ Defaults
  \/ CallDefaulted

SpecDefaults == Init /\ [][NextDefaults]_vars

(***************************************************************************)
(* Cache.put of a GET answered with a 200, followed step by step: each     *)
(* action is one callback of the pipeline.                                 *)
(***************************************************************************)
TeeReq ==
  [method |-> "GET", url |-> Url("/test", "a=1"), headers |-> BaseHeaders]
TeeRes == Res(200, H({}, 1, "e1", 0), "")
OldEntry == Entry(TeeReq, Res(200, H({}, 1, "e0", 0), ""), <<"old">>, 200, "GET")

InitTee ==
  /\ store \in {[k \in Keys |-> e] : e \in {NoEntry, OldEntry}}
  /\ fx = [p \in Procs |-> IdleFetch]
  /\ clock = 0
  /\ last = NoLast
  /\ wrap = NoWrap
  /\ tee = NoTee
  /\ pool = NoPool

\* Cache.put(req, response): the streams are wired, nothing flows yet.
TeePut ==
  /\ tee.pc = "idle"
  /\ \E body \in TeeBodies, fitInMemory \in BOOLEAN :
       tee' = [NoTee EXCEPT !.pc = "flowing", !.up = body,
                            !.inMem = fitInMemory]
  /\ UNCHANGED <<store, fx, clock, last, wrap, pool>>

\* pipe hands the next chunk to cacheStream.write, which creates
\* cacheTargetStream on the first chunk and writes to it.  The in-memory
\* target pushes the chunk on buf; cacache.put.stream may fail, and the
\* error reaches newBody through the listener on cacheStream.
TeeWrite ==
  /\ tee.pc = "flowing"
  /\ tee.up # << >>
  /\ \/ tee' = [tee EXCEPT !.pc = "writing", !.target = TRUE,
                            !.cur = Head(tee.up), !.up = Tail(tee.up),
                            !.written = Append(tee.written, Head(tee.up))]
     \/ /\ ~tee.inMem
        /\ tee' = [tee EXCEPT !.pc = "done", !.target = TRUE,
                               !.failure = "EWRITE", !.newBody = "errored",
                               !.error = "EWRITE"]
  /\ UNCHANGED <<store, fx, clock, last, wrap, pool>>

\* The callback of cacheStream.write: newBody.write(chunk, enc, cb)
TeeForward ==
  /\ tee.pc = "writing"
  /\ tee' = [tee EXCEPT !.pc = "flowing", !.cur = "",
                         !.fwd = Append(tee.fwd, tee.cur)]
  /\ UNCHANGED <<store, fx, clock, last, wrap, pool>>

\* oldBody has ended: cacheStream.end(cb), whose flush is
\* cacheTargetStream ? cacheTargetStream.end(done) : done()
TeeEnd ==
  /\ tee.pc = "flowing"
  /\ tee.up = << >>
  /\ tee' = [tee EXCEPT !.pc = IF tee.target THEN "committing"
                                ELSE "finishing"]
  /\ UNCHANGED <<store, fx, clock, last, wrap, pool>>

\* The flush of cacheTargetStream.  On success the entry is in the index
\* and done() lets cacheStream finish.  On failure the error is emitted on
\* cacheTargetStream, which has no 'error' listener, and done is never
\* called without an error: the process dies of the unhandled 'error'
\* event or goes on with the pipeline stuck.
TeeCommit ==
  /\ tee.pc = "committing"
  /\ \/ /\ store' = [store EXCEPT ![cacheKey(TeeReq)] =
                       Entry(TeeReq, TeeRes, tee.written, 200, "GET")]
        /\ tee' = [tee EXCEPT !.pc = "finishing"]
     \/ /\ \E outcome \in {"stuck", "crashed"} :
             tee' = [tee EXCEPT !.pc = outcome, !.failure = "ECOMMIT"]
        /\ UNCHANGED store
  /\ UNCHANGED <<fx, clock, last, wrap, pool>>

\* The callback of cacheStream.end: newBody.end(() => done())
TeeFinish ==
  /\ tee.pc = "finishing"
  /\ tee' = [tee EXCEPT !.pc = "done", !.newBody = "ended"]
  /\ UNCHANGED <<store, fx, clock, last, wrap, pool>>

\* An upstream error on which the chunks written so far are committed.
TeeUpstreamError_Commits ==
  /\ tee.pc \in {"flowing", "writing"}
  /\ \E err \in {"ECONNRESET", "EBADCHECKSUM"} :
       /\ err = "EBADCHECKSUM" => tee.pc = "flowing" /\ tee.up = << >>
       /\ tee' = [tee EXCEPT !.pc = "done", !.failure = err,
                              !.newBody = "errored", !.error = err]
  /\ store' = [store EXCEPT ![cacheKey(TeeReq)] =
                 Entry(TeeReq, TeeRes, tee.written, 200, "GET")]
  /\ UNCHANGED <<fx, clock, last, wrap, pool>>

\* oldBody emits an error: a transport error at any time, or EBADCHECKSUM
\* of the integrity stream once all chunks have gone through it.  The
\* listener on oldBody emits it on newBody; nothing is committed.
TeeUpstreamError ==
  /\ tee.pc \in {"flowing", "writing"}
  /\ \E err \in {"ECONNRESET", "EBADCHECKSUM"} :
       /\ err = "EBADCHECKSUM" => tee.pc = "flowing" /\ tee.up = << >>
       /\ tee' = [tee EXCEPT !.pc = "done", !.failure = err,
                              !.newBody = "errored", !.error = err]
  /\ UNCHANGED <<store, fx, clock, last, wrap, pool>>

NextTee ==
  \/ TeePut
  \/ TeeWrite
  \/ TeeForward
  \/ TeeEnd
  \/ TeeCommit
  \/ TeeFinish
  \/ TeeUpstreamError

SpecTee == InitTee /\ [][NextTee]_vars


(***************************************************************************)
(* Properties.                                                             *)
(***************************************************************************)
Settled(f) == f.pc = "resolved"
Key(f) == f.opts.url.path
GetOrHead(f) == f.opts.method \in {"GET", "HEAD"}
HasValidator(hs) == hs.etag # "" \/ hs.lastModified # -1
SentField(f, name) == IF name \in DOMAIN f.sent THEN f.sent[name] ELSE Null

\* C1: in mode default a GET or HEAD that matched a stored entry settles
\* without a transport request exactly when the entry is fresh, and is then
\* the stored response; when the entry is stale a revalidation request
\* (carrying a validator of the entry when it has one) went to the origin
\* before the promise settled.
C1_DefaultFreshOrRevalidate ==
  \A p \in Procs :
    LET f == fx[p] IN
    (Settled(f) /\ f.mode = "default" /\ GetOrHead(f) /\ IsRes(f.cached)) =>
      /\ f.net = 0 <=> ~f.stale
      /\ ~f.stale => f.result = f.cached /\ f.result.src = "cache"
      /\ f.stale => /\ f.net >= 1
                    /\ f.inCond
                    /\ HasValidator(f.cached.headers) => isConditional(f.sent)

C1_Witness ==
  \E p \in Procs :
    /\ Settled(fx[p]) /\ fx[p].mode = "default" /\ IsRes(fx[p].cached)
    /\ fx[p].stale /\ fx[p].net = 1
    /\ SentField(fx[p], "if-none-match") = fx[p].cached.headers.etag

\* C2: after a drained cacheable 200 with max-age > 0, the next GET to the
\* same URL within the max-age window resolves with status 200, the same
\* body and the four x-local-cache headers, which the first response lacked.
C2_RoundTripCacheHeaders ==
  \A p \in Procs :
    LET f == fx[p]
        first == f.prev.res
    IN
    (/\ Settled(f) /\ f.opts.method = "GET" /\ f.opts.cm
     /\ f.mode = "default"
     /\ f.prev.kind = "cacheable200" /\ f.prev.url = f.opts.url
     /\ first.headers.maxAge > 0 /\ first.headers.cc = {}
     /\ clock - first.headers.date < first.headers.maxAge) =>
      /\ f.result.status = 200
      /\ f.result.body = first.body
      /\ f.result.headers.xlocal = XLocalNames
      /\ first.headers.xlocal = {}

\* C3: the content of every stored entry was written by a 200 response to a
\* GET or HEAD request.
C3_BodyFrom200 ==
  \A k \in Keys :
    store[k].present =>
      store[k].bodyStatus = 200 /\ store[k].bodyMethod \in {"GET", "HEAD"}

C3_Witness ==
  \E p \in Procs :
    /\ Settled(fx[p]) /\ fx[p].opts.cm /\ fx[p].opts.method = "GET"
    /\ fx[p].answer.status = 201
    /\ "no-store" \notin fx[p].answer.headers.cc
    /\ fx[p].mode = "default"
    /\ store[Key(fx[p])].present

\* C4: once a call in a mode that uses the cache (default, no-cache) has
\* settled on an origin response carrying Cache-Control: no-store, no entry
\* is present for its URL; and no stored entry carries no-store.
C4_NoStoreNeverStored ==
  /\ \A p \in Procs :
       LET f == fx[p] IN
       (Settled(f) /\ f.opts.cm /\ IsRes(f.answer)
        /\ f.mode \in {"default", "no-cache"}
        /\ "no-store" \in f.answer.headers.cc) =>
         ~(store[Key(f)].present /\ store[Key(f)].url = f.opts.url)
  /\ \A k \in Keys :
       store[k].present => "no-store" \notin store[k].resHeaders.cc

\* C5: once a call with a method other than GET/HEAD has got a response and
\* settled, no entry is under its key; its response is never what an entry
\* holds; and the GET that follows it to that key finds nothing in the
\* store: a response it resolves with comes from a transport request.
C5_NonGetInvalidates ==
  /\ \A p \in Procs :
       LET f == fx[p] IN
       /\ (Settled(f) /\ f.opts.cm /\ ~GetOrHead(f) /\ f.gotRes) =>
            ~store[Key(f)].present
       /\ (f.prev.kind = "invalidated" /\ f.prev.url.path = Key(f)
           /\ f.opts.method = "GET" /\ f.pc # "idle") =>
            /\ ~IsRes(f.cached)
            /\ (Settled(f) /\ IsRes(f.result)) =>
                 f.net >= 1 /\ f.result.src = "net"
            /\ (Settled(f) /\ IsErr(f.result)) =>
                 f.net >= 1 \/ f.mode = "only-if-cached"
  /\ \A k \in Keys :
       store[k].present => store[k].bodyMethod \in {"GET", "HEAD"}

C5_Witness ==
  \E p \in Procs :
    /\ Settled(fx[p]) /\ fx[p].opts.method = "GET" /\ fx[p].mode = "default"
    /\ fx[p].prev.kind = "invalidated" /\ fx[p].prev.had
    /\ fx[p].prev.url = fx[p].opts.url
    /\ fx[p].matched /\ fx[p].net = 1 /\ fx[p].result.status = 200

\* C6: in mode no-store a call of any method never calls match, never
\* changes the store, and a response it resolves with is the network's.
C6_NoStoreBypasses ==
  /\ [](\A p \in Procs :
          fx[p].mode = "no-store" =>
            /\ ~fx[p].matched
            /\ (Settled(fx[p]) /\ IsRes(fx[p].result)) =>
                 fx[p].result.src = "net")
  /\ [][\A p \in Procs : fx[p].mode = "no-store" => store' = store]_vars

\* C7: in mode only-if-cached a call issues no transport request; it
\* resolves with the matched entry whatever its staleness and rejects with
\* ENOTCACHED when there is none.
C7_OnlyIfCachedNoNetwork ==
  \A p \in Procs :
    LET f == fx[p] IN
    f.mode = "only-if-cached" =>
      /\ f.net = 0
      /\ f.pc # "attempt"
      /\ Settled(f) => IF IsRes(f.cached) THEN f.result = f.cached
                       ELSE f.result = ENOTCACHED

\* C8: in mode force-cache a GET that matched a stored entry resolves with
\* that entry, stale or not, without a transport request.
C8_ForceCacheServes ==
  \A p \in Procs :
    LET f == fx[p] IN
    (f.mode = "force-cache" /\ f.opts.method = "GET" /\ IsRes(f.cached)) =>
      /\ f.net = 0
      /\ ~f.inCond
      /\ Settled(f)
      /\ f.result = f.cached

C8_Witness ==
  \E p \in Procs :
    /\ fx[p].mode = "force-cache" /\ fx[p].opts.method = "GET"
    /\ IsRes(fx[p].cached) /\ fx[p].stale
    /\ mustRevalidate(fx[p].cached)
    /\ Settled(fx[p])

\* C9: in mode no-cache a GET that matched a stored entry, fresh or not,
\* settles only after a revalidation request (carrying a validator of the
\* entry when it has one) has gone to the origin.
C9_NoCacheRevalidates ==
  \A p \in Procs :
    LET f == fx[p] IN
    (f.mode = "no-cache" /\ f.opts.method = "GET" /\ IsRes(f.cached)) =>
      /\ f.inCond
      /\ Settled(f) =>
           /\ f.net >= 1
           /\ f.cached.headers.etag # "" =>
                SentField(f, "if-none-match") = f.cached.headers.etag

C9_Witness ==
  \E p \in Procs :
    /\ fx[p].mode = "no-cache" /\ fx[p].opts.method = "GET"
    /\ IsRes(fx[p].cached) /\ ~fx[p].stale
    /\ "immutable" \in fx[p].cached.headers.cc
    /\ Settled(fx[p]) /\ fx[p].net = 1

\* C10: in mode reload a call never calls match and sends exactly the
\* caller's headers; a GET's 200 without no-store is handed to the caller
\* as a body that commits an entry for the URL with that body, and after the
\* caller has drained it a default-mode GET to the URL matches that body.
C10_ReloadReplaces ==
  \A p \in Procs :
    LET f == fx[p] IN
    /\ f.mode = "reload" =>
         /\ ~f.matched
         /\ ~IsRes(f.cached)
         /\ f.net >= 1 => f.sent = f.opts.headers
         /\ (/\ Settled(f) /\ f.opts.method = "GET"
             /\ f.result.status = 200
             /\ "no-store" \notin f.result.headers.cc) =>
              /\ f.result.tee
              /\ f.pend.present
              /\ f.pend.url = f.opts.url
              /\ f.pend.body = f.result.body
    /\ (/\ f.prev.kind = "cacheable200" /\ f.prev.mode = "reload"
        /\ f.prev.url = f.opts.url
        /\ f.mode = "default" /\ f.opts.method = "GET" /\ f.matched) =>
         /\ IsRes(f.cached)
         /\ f.cached.body = f.prev.res.body
         /\ (Settled(f) /\ ~f.stale) => f.result.body = f.prev.res.body

C10_Witness ==
  \E p \in Procs :
    /\ fx[p].prev.kind = "cacheable200" /\ fx[p].prev.mode = "reload"
    /\ fx[p].prev.url = fx[p].opts.url /\ fx[p].prev.res.body = "b2"
    /\ fx[p].mode = "default" /\ fx[p].opts.method = "GET"
    /\ Settled(fx[p]) /\ ~fx[p].stale /\ fx[p].result.body = "b2"

\* C11: a GET or HEAD in mode default, no-cache or force-cache that found
\* no matching entry goes to the network, and when the origin answered it
\* resolves with the origin's response (never a rejection); a GET's storable
\* 200 is handed to the caller as a body that commits the entry.
C11_MissFetchesAndStores ==
  \A p \in Procs :
    LET f == fx[p] IN
    (/\ f.mode \in {"default", "no-cache", "force-cache"}
     /\ GetOrHead(f) /\ f.matched /\ ~IsRes(f.cached)) =>
      /\ f.pc \in {"attempt", "putMeta", "resolved"}
      /\ (Settled(f) /\ IsRes(f.answer)) =>
           /\ f.net >= 1
           /\ IsRes(f.result)
           /\ f.result.src = "net"
           /\ f.result.status = f.answer.status
           /\ (StoreBranch(f, RemoteReq(f), f.result)
               /\ f.opts.method = "GET") => f.result.tee /\ f.pend.present

\* C12: a call with a cacheManager whose mode is default (given or absent)
\* and whose headers name a conditional header in any letter case runs in
\* mode no-store: as a GET or HEAD it never calls match and no step of it
\* changes the store, so the entries stored before it are there after it; a
\* mode other than default that the caller chose is kept as it is.
ConditionalAsTyped ==
  {"If-None-Match", "if-none-match", "IF-MATCH", "if-match",
   "if-modified-since", "if-unmodified-since", "if-range"}

Promoted(f) ==
  /\ f.pc # "idle" /\ f.opts.cm
  /\ f.opts.cache \in {"", "default"}
  /\ DOMAIN f.opts.headers \cap ConditionalAsTyped # {}

C14_NotModifiedMergesHeaders ==
  \A p \in Procs :
    LET f == fx[p]
        e == store[Key(f)]
        old == f.cached.headers
        new == f.answer.headers
    IN
    (/\ Settled(f) /\ f.inCond /\ f.answer.status = 304
     /\ f.opts.method = "GET") =>
      /\ e.present
      /\ e.body = f.cached.body
      /\ e.integrity = Digest(f.cached.body)
      /\ e.resHeaders.etag = IF new.etag # "" THEN new.etag ELSE old.etag
      /\ e.resHeaders.date = IF new.date # -1 THEN new.date ELSE old.date
      /\ e.resHeaders.vary = IF new.vary # "" THEN new.vary ELSE old.vary
      /\ e.resHeaders.maxAge =
           IF new.cc # {} \/ new.maxAge # -1 THEN new.maxAge ELSE old.maxAge
      /\ e.resHeaders.cc =
           IF new.cc # {} \/ new.maxAge # -1 THEN new.cc ELSE old.cc

\* C15: when the revalidation of a matched entry ends in a status >= 500
\* or in a transport error, the call resolves with the matched response
\* (status 200, its body) under Warning 111 exactly when the entry's
\* Cache-Control has no must-revalidate; with must-revalidate the 5xx is the
\* resolution, respectively the error the rejection, and never the entry.
C15_StaleOnError ==
  \A p \in Procs :
    LET f == fx[p] IN
    (/\ Settled(f) /\ f.inCond
     /\ f.answer.status >= 500 \/ IsErr(f.answer)) =>
      IF "must-revalidate" \notin f.cached.headers.cc
        THEN /\ f.result = setWarning(f.cached, 111)
             /\ f.result.status = 200
             /\ f.result.src = "cache"
             /\ f.result.headers.warning = 111
        ELSE /\ f.result.src # "cache"
             /\ f.answer.status >= 500 =>
                  /\ f.result.status = f.answer.status
                  /\ f.result.headers.warning = 0
             /\ IsErr(f.answer) => f.result = f.answer

C15_Witness ==
  \E p \in Procs :
    /\ Settled(fx[p]) /\ fx[p].inCond
    /\ "must-revalidate" \in fx[p].cached.headers.cc
    /\ fx[p].answer.code = "ECONNRESET"
    /\ IsErr(fx[p].result)

\* C16: a POST makes one transport attempt whatever opts.retry allows: a
\* status >= 400 of that attempt is the resolution and a transport error of
\* it is the rejection.
C16_PostOnce ==
  \A p \in Procs :
    LET f == fx[p] IN
    f.opts.method = "POST" =>
      /\ f.net <= 1
      /\ f.attempt <= 1
      /\ Settled(f) =>
           /\ f.net = 1
           /\ IsRes(f.answer) => f.result.status = f.answer.status
           /\ IsErr(f.answer) => f.result = f.answer

C16_Witness ==
  \E p \in Procs :
    /\ fx[p].opts.method = "POST" /\ fx[p].opts.retries >= 1
    /\ Settled(fx[p]) /\ fx[p].answer.code = "ECONNRESET"
    /\ fx[p].result = fx[p].answer /\ fx[p].net = 1

\* C17: a call whose body is a stream makes one transport attempt, whether
\* the attempt ends in a retriable status or in a retriable transport error.
C17_StreamOnce ==
  \A p \in Procs :
    fx[p].opts.stream => fx[p].net <= 1 /\ fx[p].attempt <= 1

\* C18: for a call that is not a POST and has no stream body, with or
\* without a cacheManager, a response received while retries remain is
\* followed by another attempt exactly when its status is 408, 420, 429 or
\* >= 500; any other status settles the remoteFetch call after that attempt.
C18_RetriableStatuses ==
  \A p \in Procs :
    LET f == fx[p] IN
    (/\ f.opts.method # "POST" /\ ~f.opts.stream
     /\ f.pc \in {"attempt", "resolved"}
     /\ f.net >= 1 /\ IsRes(f.answer)
     /\ f.attempt < f.opts.retries + 1) =>
      (f.pc = "attempt" <=>
         f.answer.status \in {408, 420, 429}
         \/ f.answer.status >= 500)

\* C19: for a call that is not a POST, a transport error with code
\* ECONNRESET, ECONNREFUSED, EADDRINUSE or ETIMEDOUT or with type
\* request-timeout is followed by another attempt while retries remain, and
\* a response of a later attempt is what remoteFetch resolves with; an error
\* with any other code is not retried and is the rejection.  (The HEAD
\* response that remoteFetch hands to Cache.put is the case of C11.)
RetriableAsListed(e) ==
  \/ e.code \in {"ECONNRESET", "ECONNREFUSED", "EADDRINUSE", "ETIMEDOUT"}
  \/ e.type = "request-timeout"

C20_AttemptsBounded ==
  \A p \in Procs :
    LET f == fx[p] IN
    /\ f.net <= f.opts.retries + 1
    /\ f.attempt = f.net
    /\ (Settled(f) /\ IsRes(f.result) /\ f.result.src = "net") =>
         /\ f.net >= 1
         /\ f.result.headers.attempts = f.net
         /\ f.result.headers.attempts >= 1

C20_Witness ==
  \E p \in Procs :
    /\ Settled(fx[p]) /\ fx[p].opts.retries = 1 /\ fx[p].net = 2
    /\ fx[p].result.status = 500 /\ fx[p].result.headers.attempts = 2

SameButWarning(a, b) == [a EXCEPT !.warning = 0] = [b EXCEPT !.warning = 0]

C26_HeadServedFromGetEntry ==
  /\ [](\A p \in Procs :
          LET f == fx[p]
              e == store[cacheKey(CacheReq(f))]
          IN
          (f.pc # "idle" /\ f.opts.method = "HEAD") =>
            /\ IsRes(f.cached) =>
                 /\ f.cached.status = 200
                 /\ f.cached.body = ""
                 /\ f.cached.src = "cache"
            /\ (Settled(f) /\ f.net = 0 /\ f.how = "resolved") =>
                 /\ f.result.status = 200
                 /\ f.result.body = ""
                 /\ e.present /\ e.bodyMethod = "GET" /\ e.body \in Bodies
                 /\ SameButWarning(f.result.headers, e.resHeaders))
  /\ [][\A p \in Procs : \A k \in Keys :
          (fx[p].opts.method = "HEAD" /\ store[k].present) =>
            /\ store'[k].present
            /\ store'[k].body = store[k].body
            /\ store'[k].integrity = store[k].integrity]_vars

C26_Witness ==
  \E p \in Procs :
    /\ fx[p].opts.method = "HEAD" /\ Settled(fx[p]) /\ fx[p].net = 0
    /\ fx[p].mode = "default" /\ fx[p].how = "resolved"
    /\ fx[p].prev.kind = "cacheable200"
    /\ store[Key(fx[p])].body = fx[p].prev.res.body
    /\ fx[p].result.headers.etag = "e1"

\* C22: a stored response with Vary: X is matched by a request to the same
\* URL exactly when the request's value of X equals the value of X in the
\* stored request, absent on both sides included; with Vary: * it is never
\* matched and the call goes on to the network (in mode only-if-cached,
\* which has no network, to ENOTCACHED).
SameResource(f, e) ==
  e.present /\ e.url.path = f.opts.url.path /\ e.url.query = f.opts.url.query

C22_VaryMatches ==
  \A p \in Procs :
    LET f == fx[p]
        e == store[Key(f)]
        X == e.resHeaders.vary
    IN
    (f.matched /\ SameResource(f, e) /\ f.opts.integrity = {}) =>
      /\ X \notin {"", "*"} =>
           (IsRes(f.cached) <=>
              Get(e.reqHeaders, X) = Get(f.opts.headers, X))
      /\ X = "*" =>
           /\ ~IsRes(f.cached)
           /\ IF f.mode = "only-if-cached"
                THEN f.result = ENOTCACHED
                ELSE f.pc = "attempt" /\ ~f.inCond

\* A request with Accept: x matched an entry stored for accept: x.
C22_Witness ==
  \E p \in Procs :
    /\ fx[p].matched /\ IsRes(fx[p].cached)
    /\ store[Key(fx[p])].resHeaders.vary = "accept"
    /\ "Accept" \in DOMAIN fx[p].opts.headers
    /\ Get(store[Key(fx[p])].reqHeaders, "accept") = "x"

\* C23: match returns an entry only to a request with the entry's path and
\* query string; a request whose URL differs from the stored URL in the
\* fragment alone is matched.
C23_QueryPartOfMatch ==
  \A p \in Procs :
    LET f == fx[p]
        e == store[Key(f)]
    IN
    f.matched =>
      /\ IsRes(f.cached) =>
           /\ e.url.path = f.opts.url.path
           /\ e.url.query = f.opts.url.query
      /\ (/\ SameResource(f, e) /\ e.resHeaders.vary = ""
          /\ f.opts.integrity = {}) => IsRes(f.cached)

\* An entry stored for /test?a=1#top was matched by /test?a=1#frag.
C23_Witness ==
  \E p \in Procs :
    /\ fx[p].matched /\ IsRes(fx[p].cached)
    /\ fx[p].opts.url.hash = "frag"
    /\ store[Key(fx[p])].url.hash = "top"

\* C24: with opts.integrity, match returns an entry only if the entry's
\* digest is one of the hashes opts.integrity lists for its strongest
\* algorithm.
C24_IntegrityFiltersMatch ==
  \A p \in Procs :
    LET f == fx[p]
        e == store[Key(f)]
    IN
    (f.matched /\ IsRes(f.cached) /\ f.opts.integrity # {}) =>
      \E hash \in f.opts.integrity :
        /\ hash[1] = pickAlgorithm(f.opts.integrity)
        /\ hash = e.integrity

\* C25: a call with opts.integrity does not resolve with a body whose hash
\* under the strongest algorithm of opts.integrity is not listed there.
C25_ServedBytesVerified ==
  \A p \in Procs :
    LET f == fx[p] IN
    (/\ Settled(f) /\ f.how = "resolved" /\ IsRes(f.result)
     /\ f.opts.method = "GET" /\ f.opts.integrity # {}) =>
      \E hash \in f.opts.integrity :
        /\ hash[1] = pickAlgorithm(f.opts.integrity)
        /\ hash[2] = f.result.body

\* C27: the response match gave, once cachingFetch has looked at its
\* Warning, does not carry a stored Warning with a warn-code 100..199 and
\* carries a stored Warning with a warn-code 200..299 unchanged; so does a
\* response served without a transport request.
C27_StoredWarning ==
  \A p \in Procs :
    LET f == fx[p]
        w == store[Key(f)].resHeaders.warning
    IN
    (f.matched /\ IsRes(f.cached)) =>
      /\ (w >= 100 /\ w < 200) =>
           /\ f.cached.headers.warning # w
           /\ (Settled(f) /\ f.net = 0) => f.result.headers.warning = 0
      /\ (w >= 200 /\ w < 300) =>
           /\ f.cached.headers.warning = w
           /\ (Settled(f) /\ f.net = 0) => f.result.headers.warning = w

\* A hit on an entry stored with Warning 112 was served.
C27_Witness ==
  \E p \in Procs :
    /\ Settled(fx[p]) /\ fx[p].net = 0 /\ IsRes(fx[p].result)
    /\ store[Key(fx[p])].resHeaders.warning = 112
    /\ fx[p].result.body = "b1"

\* C28: a function built by defaults calls cachingFetch with the per-call
\* URL, or with the URL of the defaults built last that has one when the
\* per-call URL is missing, and with options that hold, for every key of
\* any layer, the value of the last layer that has the key, the layers
\* being the options of the chained defaults in order and then the
\* per-call options (an absent layer has no key).
BaseUrl(c) == IF c.args[1].t = "string" THEN c.args[1] ELSE Undefined
BaseOpts(c) ==
  IF c.args[1].t = "object" THEN c.args[1].o
  ELSE IF c.args[2].t = "object" THEN c.args[2].o
  ELSE NoObj

C29_CacheBeforeCaller ==
  /\ Len(tee.fwd) <= Len(tee.written)
  /\ SubSeq(tee.written, 1, Len(tee.fwd)) = tee.fwd
  /\ tee.newBody = "ended" =>
       /\ IsRes(match(store, TeeReq, NoOpts))
       /\ store[cacheKey(TeeReq)].resHeaders = TeeRes.headers
       /\ store[cacheKey(TeeReq)].body = tee.fwd

\* C30: once a branch of the pipeline has failed the caller-facing stream
\* does not end normally, and when the pipeline has come to rest it has
\* emitted that error.
C30_ErrorsReachCaller ==
  tee.failure # "" =>
    /\ tee.newBody # "ended"
    /\ tee.pc \in {"done", "stuck", "crashed"} =>
         tee.newBody = "errored" /\ tee.error = tee.failure

C32_ImmutableAlwaysFresh ==
  \A p \in Procs :
    LET f == fx[p] IN
    (/\ f.matched /\ IsRes(f.cached) /\ f.mode = "default"
     /\ "immutable" \in f.cached.headers.cc) =>
      ~f.stale /\ Settled(f) /\ f.net = 0

\* C32: in mode default a matched response with immutable and without
\* must-revalidate in its Cache-Control is not stale, whatever its age, its
\* Expires, Last-Modified, Pragma and max-age are, and the call resolves
\* with it without a transport request; with must-revalidate beside
\* immutable it is stale and revalidated.
C32_ImmutableFreshUnlessMustRevalidate ==
  \A p \in Procs :
    LET f == fx[p] IN
    (/\ f.matched /\ IsRes(f.cached) /\ f.mode = "default"
     /\ "immutable" \in f.cached.headers.cc) =>
      IF "must-revalidate" \in f.cached.headers.cc
        THEN f.stale /\ f.inCond /\ ~(Settled(f) /\ f.net = 0)
        ELSE /\ ~f.stale
             /\ Settled(f) /\ f.net = 0 /\ f.how = "resolved"
             /\ f.result.body = store[Key(f)].body

\* An immutable response with max-age=0 and Cache-Control no-cache, 300
\* seconds old, was served from the cache.
C32_Witness ==
  \E p \in Procs :
    /\ Settled(fx[p]) /\ fx[p].mode = "default" /\ fx[p].net = 0
    /\ fx[p].cached.headers.cc = {"immutable", "no-cache"}
    /\ fx[p].cached.headers.maxAge = 0
    /\ fx[p].cached.headers.date = 5000 /\ clock = 5300
    /\ fx[p].result.body = "b1"

C34_RevalidationHeaders ==
  \A p \in Procs :
    LET f == fx[p]
        hs == f.cached.headers
    IN
    (f.inCond /\ f.net >= 1 /\ GetOrHead(f)) =>
      /\ \A h \in DOMAIN f.opts.headers :
           /\ h \in DOMAIN f.sent
           /\ toLowerCase(h) \notin {"if-none-match", "if-modified-since"}
                => f.sent[h] = f.opts.headers[h]
      /\ hs.etag # "" => SentField(f, "if-none-match") = hs.etag
      /\ hs.lastModified # -1 =>
           /\ "if-modified-since" \in DOMAIN f.sent
           /\ f.sent["if-modified-since"] = hs.lastModified
      /\ \A h \in DOMAIN f.sent :
           toLowerCase(h) \notin {"if-match", "if-unmodified-since"}

\* C35: a request without opts.agent is handed an agent only if it agrees
\* with the request the agent was built for on the scheme, the proxy and
\* the TLS options ca, cert and key.
C35_AgentsNotShared ==
  (pool.req.agent = "" /\ pool.got.id # 0) =>
    /\ pool.got.by.https = pool.req.https
    /\ pool.got.by.proxy = pool.req.proxy
    /\ pool.got.by.ca = pool.req.ca
    /\ pool.got.by.cert = pool.req.cert
    /\ pool.got.by.key = pool.req.key

\* C36: once the integrity stream has rejected the body of the response
\* being cached, the store holds no entry for that response, whether the
\* chunks were kept in memory or streamed to the store; what was under the
\* key before is still there.
C36_RejectedNotCommitted ==
  /\ [][tee'.failure = "EBADCHECKSUM" => store' = store]_vars
  /\ [](tee.failure = "EBADCHECKSUM" =>
          LET e == store[cacheKey(TeeReq)] IN
          ~(e.present /\ e.resHeaders = TeeRes.headers))

\* Two chunks went to the streaming cache writer and to the caller before
\* the integrity stream failed.
C36_Witness ==
  /\ tee.failure = "EBADCHECKSUM" /\ tee.error = "EBADCHECKSUM"
  /\ ~tee.inMem /\ Len(tee.written) = 2 /\ Len(tee.fwd) = 2

\* C37: a step of a GET or HEAD call leaves every stored entry whose URL
\* differs from the URL of the call, be it in the query string alone, as it
\* was.
C37_OtherUrlsUntouched ==
  [][\A k \in Keys : \A p \in Procs :
       (/\ store[k].present /\ fx[p].pc # "idle" /\ GetOrHead(fx[p])
        /\ (store[k].url.path # fx[p].opts.url.path
            \/ store[k].url.query # fx[p].opts.url.query)) =>
         store'[k] = store[k]]_vars

\* C38: a call that had its response when an invalidation of its key
\* completed does not change the store under that key when its body has
\* been read.
C38_NoStaleRecreation ==
  [][\A p \in DOMAIN fx :
       (fx[p].outdated /\ fx[p].pc = "resolved" /\ fx'[p].pc = "idle") =>
         store'[Key(fx[p])] = store[Key(fx[p])]]_vars

\* C39: the write-back of a 304 changes the entry only if the content
\* under the key is still the content the revalidating call matched.
C39_WriteBackSameBody ==
  [][\A p \in DOMAIN fx :
       (/\ fx[p].pc = "condPut" /\ fx'[p].pc # "condPut"
        /\ fx[p].opts.method = "GET"
        /\ store'[Key(fx[p])] # store[Key(fx[p])]) =>
         store[Key(fx[p])].body = fx[p].cached.body]_vars

\* C40: a call that has begun and has not settled settles, whatever its
\* cache mode, its method and its number of retries are.
C40_EveryCallSettles ==
  \A p \in Procs :
    (fx[p].pc \notin {"idle", "resolved"}) ~> Settled(fx[p])

\* A revalidation settled after its second transport request.
C40_Witness ==
  \E p \in Procs :
    /\ Settled(fx[p]) /\ fx[p].inCond
    /\ fx[p].opts.retries = 1 /\ fx[p].net = 2

====
